---- MODULE Spec2Model ----
(***************************************************************************)
(* The elevator micro-game of src/prototypes/elevator.py: the State        *)
(* aggregate, the tick engine `update`, the disembark effects              *)
(* `handle_debark`, the command interpreter `handle_action`, and the two   *)
(* loops of `main_loop`: update while nobody waits on any floor, then,     *)
(* until the game has failed, turns that clear the event log and handle    *)
(* one action.                                                             *)
(*                                                                         *)
(* Python lists are sequences; the 0-based index k of the code is the      *)
(* 1-based index k + 1 here.  A command line is the sequence of its        *)
(* characters, so that startswith, split(' ') and int() are computed as    *)
(* the code computes them.                                                 *)
(***************************************************************************)
EXTENDS Integers, Sequences, FiniteSets, TLC

VARIABLES state, pc

vars == <<state, pc>>

(***************************************************************************)
(* Bounds of the model.                                                    *)
(***************************************************************************)
MaxFloors == 3        \* Init: 1..MaxFloors floors
MaxElevators == 2     \* Init: 1..MaxElevators elevators
MaxCapacity == 2      \* Init: capacity in 0..MaxCapacity
MaxPassengers == 2    \* a tick is taken only if it leaves at most this many passengers
MaxGoingTo == 2       \* a "go" is issued only if it leaves at most this many queued destinations
MaxTime == 7          \* Init: time_remaining is at most this; so are ticks' time_remaining
TwoCarTime == 6       \* TwoCarInit: time_remaining
MaxOvertime == 1      \* the first loop updates while time_remaining > -MaxOvertime

(***************************************************************************)
(* Program constants.                                                      *)
(***************************************************************************)
VIP_SCORE == 11             \* elevator.py:205
VIP_BONUS_ANNOUNCED == 10   \* elevator.py:206
MECHANIC_TIME == 20         \* elevator.py:208
BRICK_PENALTY == 5          \* elevator.py:211
ORDINARY_SCORE == 1         \* elevator.py:214
INITIAL_TIME == 110         \* elevator.py:221
ELEVATOR_CAPACITY == 5      \* elevator.py:223

\* passenger_pool (elevator.py:53-58), in dict insertion order.
passenger_pool ==
    << [kind |-> "Passenger", weight |-> 10],
       [kind |-> "Brick",     weight |-> 0],
       [kind |-> "VIP",       weight |-> 3],
       [kind |-> "Mechanic",  weight |-> 1] >>

RECURSIVE SumWeights(_, _)
SumWeights(pool, k) ==
    IF k > Len(pool) THEN 0 ELSE pool[k].weight + SumWeights(pool, k + 1)

\* passenger_pool_total (elevator.py:59)
passenger_pool_total == SumWeights(passenger_pool, 1)

Kinds == {"Passenger", "Brick", "VIP", "Mechanic"}

(***************************************************************************)
(* Entity model (elevator.py:12-51).                                       *)
(***************************************************************************)
NewPassenger(kind, target) == [kind |-> kind, target_floor |-> target]

NewElevator(floor, doors, capacity) ==
    [floor |-> floor, doors_open |-> doors, going_to |-> <<>>,
     capacity |-> capacity, passengers |-> <<>>]

NewFloor(ps) == [passengers |-> ps]

(***************************************************************************)
(* Event log entries.  An f-string of the code is its text with {} for     *)
(* each formatted value; n carries the formatted number(s), text the       *)
(* formatted command line.                                                 *)
(***************************************************************************)
Event(msg, n, text) == [msg |-> msg, n |-> n, text |-> text]

EvInvalidGo == Event("Invalid \"go\" command, need <elevator>, <target floor>.", <<>>, <<>>)
EvDumped(k) == Event("{} passengers dumped into the pit.", <<k>>, <<>>)
EvInvalidDump(top) == Event("Invalid \"dump\" command, need <elevator> on floor {}.", <<top>>, <<>>)
EvClosed(e) == Event("Forcibly closed elevator {}'s door.", <<e>>, <<>>)
EvInvalidClose == Event("Invalid \"close\" command, need <elevator>.", <<>>, <<>>)
EvInvalidAction(a) == Event("Invalid action: \"{}\".", <<>>, a)
EvDroppedOff(i) == Event("Elevator {} dropped off a passenger.", <<i>>, <<>>)
EvFull(i) == Event("Elevator {} is now full.", <<i>>, <<>>)
EvReady(i) == Event("Elevator {} ready to move.", <<i>>, <<>>)
EvNewPassenger(f) == Event("New passenger waiting at floor {}.", <<f>>, <<>>)
EvOutOfTime(s) == Event("Out of time. Final score: {}", <<s>>, <<>>)
EvVipBonus == Event("+{} bonus score!", <<VIP_BONUS_ANNOUNCED>>, <<>>)
EvMechanic == Event("+20 time gained!", <<>>, <<>>)
EvBrick == Event("-5 score from delivering brick.", <<>>, <<>>)

AddEvent(st, ev) == [st EXCEPT !.events = Append(@, ev)]

(***************************************************************************)
(* Disembark effects (elevator.py:203-216).                                *)
(***************************************************************************)
\* handle_debark that scores a VIP the announced bonus alone.
handle_debark_bonus_only(st, passenger) ==
    IF passenger.kind = "VIP"
    THEN AddEvent([st EXCEPT !.score = @ + VIP_BONUS_ANNOUNCED], EvVipBonus)
    ELSE IF passenger.kind = "Mechanic"
    THEN AddEvent([st EXCEPT !.time_remaining = @ + MECHANIC_TIME], EvMechanic)
    ELSE IF passenger.kind = "Brick"
    THEN AddEvent([st EXCEPT !.score = @ - BRICK_PENALTY], EvBrick)
    ELSE [st EXCEPT !.score = @ + ORDINARY_SCORE]

\* handle_debark without the branch for Brick: a Brick scores as an ordinary
\* passenger.
handle_debark_brick_as_ordinary(st, passenger) ==
    IF passenger.kind = "VIP"
    THEN AddEvent([st EXCEPT !.score = @ + VIP_SCORE], EvVipBonus)
    ELSE IF passenger.kind = "Mechanic"
    THEN AddEvent([st EXCEPT !.time_remaining = @ + MECHANIC_TIME], EvMechanic)
    ELSE [st EXCEPT !.score = @ + ORDINARY_SCORE]

handle_debark(st, passenger) ==
    IF passenger.kind = "VIP"
    THEN AddEvent([st EXCEPT !.score = @ + VIP_SCORE], EvVipBonus)
    ELSE IF passenger.kind = "Mechanic"
    THEN AddEvent([st EXCEPT !.time_remaining = @ + MECHANIC_TIME], EvMechanic)
    ELSE IF passenger.kind = "Brick"
    THEN AddEvent([st EXCEPT !.score = @ - BRICK_PENALTY], EvBrick)
    ELSE [st EXCEPT !.score = @ + ORDINARY_SCORE]

(***************************************************************************)
(* Tick engine (elevator.py:128-201).                                      *)
(***************************************************************************)
\* elevator.py:137-140: the 0-based index of the last rider who wants this
\* floor, or -1.
getting_out(elevator) ==
    LET js == {j \in 1..Len(elevator.passengers) :
                  elevator.passengers[j].target_floor = elevator.floor}
    IN  IF js = {} THEN -1 ELSE (CHOOSE j \in js : \A k \in js : k <= j) - 1

\* exit_front that lets out the rider found by getting_out, wherever it
\* stands in the elevator.
exit_wanting(st, idx) ==
    LET elevator == st.elevators[idx]
        j == getting_out(elevator) + 1
        passenger == elevator.passengers[j]
        popped == [st EXCEPT !.elevators[idx].passengers =
                                 SubSeq(@, 1, j - 1) \o SubSeq(@, j + 1, Len(@))]
    IN  handle_debark(AddEvent(popped, EvDroppedOff(idx - 1)), passenger)

\* elevator.py:142-151: only the front rider leaves; it debarks at its target
\* floor and is otherwise pushed to the front of the floor's line.
exit_front(st, idx) ==
    LET elevator == st.elevators[idx]
        passenger == Head(elevator.passengers)
        popped == [st EXCEPT !.elevators[idx].passengers = Tail(@)]
    IN  IF passenger.target_floor = elevator.floor
        THEN handle_debark(AddEvent(popped, EvDroppedOff(idx - 1)), passenger)
        ELSE [popped EXCEPT !.floors[elevator.floor + 1].passengers = <<passenger>> \o @]

\* board_front that leaves the boarded passenger in the floor's line too.
board_front_keeps_waiting(st, idx) ==
    LET elevator == st.elevators[idx]
        waiting == st.floors[elevator.floor + 1].passengers
        boarded == [st EXCEPT !.elevators[idx].passengers = <<Head(waiting)>> \o @]
    IN  IF Len(boarded.elevators[idx].passengers) = elevator.capacity
        THEN AddEvent(boarded, EvFull(idx - 1))
        ELSE boarded

\* elevator.py:153-157: the front of the floor's line boards at the front of
\* the elevator.
board_front(st, idx) ==
    LET elevator == st.elevators[idx]
        waiting == st.floors[elevator.floor + 1].passengers
        boarded == [st EXCEPT !.elevators[idx].passengers = <<Head(waiting)>> \o @,
                              !.floors[elevator.floor + 1].passengers = Tail(@)]
    IN  IF Len(boarded.elevators[idx].passengers) = elevator.capacity
        THEN AddEvent(boarded, EvFull(idx - 1))
        ELSE boarded

\* elevator.py:159-162
close_doors(st, idx) ==
    LET closed == [st EXCEPT !.elevators[idx].doors_open = FALSE]
    IN  IF st.elevators[idx].going_to = <<>>
        THEN AddEvent(closed, EvReady(idx - 1))
        ELSE closed

\* move_elevator with the two directions exchanged.
move_elevator_reversed(st, idx) ==
    LET elevator == st.elevators[idx]
    IN  IF elevator.going_to[1] = elevator.floor
        THEN [st EXCEPT !.elevators[idx].going_to = Tail(@),
                        !.elevators[idx].doors_open = TRUE]
        ELSE IF elevator.going_to[1] < elevator.floor
        THEN [st EXCEPT !.elevators[idx].floor = @ + 1]
        ELSE [st EXCEPT !.elevators[idx].floor = @ - 1]

\* move_elevator that pops the destination without opening the doors.
move_elevator_stays_shut(st, idx) ==
    LET elevator == st.elevators[idx]
    IN  IF elevator.going_to[1] = elevator.floor
        THEN [st EXCEPT !.elevators[idx].going_to = Tail(@)]
        ELSE IF elevator.going_to[1] < elevator.floor
        THEN [st EXCEPT !.elevators[idx].floor = @ - 1]
        ELSE [st EXCEPT !.elevators[idx].floor = @ + 1]

\* move_elevator that opens the doors as it leaves a floor.
move_elevator_doors_open(st, idx) ==
    LET elevator == st.elevators[idx]
    IN  IF elevator.going_to[1] = elevator.floor
        THEN [st EXCEPT !.elevators[idx].going_to = Tail(@),
                        !.elevators[idx].doors_open = TRUE]
        ELSE IF elevator.going_to[1] < elevator.floor
        THEN [st EXCEPT !.elevators[idx].floor = @ - 1,
                        !.elevators[idx].doors_open = TRUE]
        ELSE [st EXCEPT !.elevators[idx].floor = @ + 1,
                        !.elevators[idx].doors_open = TRUE]

\* move_elevator that serves the destination queued last.
move_elevator_newest_first(st, idx) ==
    LET elevator == st.elevators[idx]
        n == Len(elevator.going_to)
    IN  IF elevator.going_to[n] = elevator.floor
        THEN [st EXCEPT !.elevators[idx].going_to = SubSeq(@, 1, n - 1),
                        !.elevators[idx].doors_open = TRUE]
        ELSE IF elevator.going_to[n] < elevator.floor
        THEN [st EXCEPT !.elevators[idx].floor = @ - 1]
        ELSE [st EXCEPT !.elevators[idx].floor = @ + 1]

\* elevator.py:164-171
move_elevator(st, idx) ==
    LET elevator == st.elevators[idx]
    IN  IF elevator.going_to[1] = elevator.floor
        THEN [st EXCEPT !.elevators[idx].going_to = Tail(@),
                        !.elevators[idx].doors_open = TRUE]
        ELSE IF elevator.going_to[1] < elevator.floor
        THEN [st EXCEPT !.elevators[idx].floor = @ - 1]
        ELSE [st EXCEPT !.elevators[idx].floor = @ + 1]

\* elevator_step with <= for < in the capacity test.
elevator_step_overfull(st, idx) ==
    LET elevator == st.elevators[idx]
    IN  IF elevator.doors_open
        THEN IF getting_out(elevator) >= 0
             THEN exit_front(st, idx)
             ELSE IF /\ st.floors[elevator.floor + 1].passengers # <<>>
                     /\ Len(elevator.passengers) <= elevator.capacity
             THEN board_front(st, idx)
             ELSE close_doors(st, idx)
        ELSE IF elevator.going_to # <<>>
        THEN move_elevator(st, idx)
        ELSE st

\* elevator.py:132-171, the body of the loop for one elevator.
elevator_step(st, idx) ==
    LET elevator == st.elevators[idx]
    IN  IF elevator.doors_open
        THEN IF getting_out(elevator) >= 0
             THEN exit_front(st, idx)
             ELSE IF /\ st.floors[elevator.floor + 1].passengers # <<>>
                     /\ Len(elevator.passengers) < elevator.capacity
             THEN board_front(st, idx)
             ELSE close_doors(st, idx)
        ELSE IF elevator.going_to # <<>>
        THEN move_elevator(st, idx)
        ELSE st

\* update_elevators that runs the loop from the last elevator to the first.
RECURSIVE update_elevators_descending(_, _)
update_elevators_descending(st, idx) ==
    IF idx > Len(st.elevators)
    THEN st
    ELSE elevator_step(update_elevators_descending(st, idx + 1), idx)

\* elevator.py:132, the loop over the elevators in index order.
RECURSIVE update_elevators(_, _)
update_elevators(st, idx) ==
    IF idx > Len(st.elevators)
    THEN st
    ELSE update_elevators(elevator_step(st, idx), idx + 1)

(***************************************************************************)
(* Passenger spawner (elevator.py:173-195).  The random source is the      *)
(* record d of this tick's draws: d.u is random.random() and               *)
(* arrival_rate, both in halves; d.origin, d.target and d.roll are the     *)
(* three randrange results.                                                *)
(***************************************************************************)
random_random == {0, 1}
ArrivalRates == {0, 1, 2}

\* spawns with <= for <.
spawns_at_rate_zero(st, d) == d.u <= st.config.arrival_rate

\* elevator.py:174
spawns(st, d) == d.u < st.config.arrival_rate

\* target_floor_of without the step over the origin floor.
target_floor_of_unshifted(origin_floor, drawn) == drawn

\* elevator.py:179-181
target_floor_of(origin_floor, drawn) ==
    IF drawn >= origin_floor THEN drawn + 1 ELSE drawn

\* pick_kind with <= for < in the test of the roll.
RECURSIVE pick_kind_inclusive(_, _, _)
pick_kind_inclusive(pool, k, passenger_roll) ==
    IF k > Len(pool) THEN "none"
    ELSE IF passenger_roll <= pool[k].weight THEN pool[k].kind
    ELSE pick_kind_inclusive(pool, k + 1, passenger_roll - pool[k].weight)

\* elevator.py:184-192: "none" is the for-else that raises.
RECURSIVE pick_kind(_, _, _)
pick_kind(pool, k, passenger_roll) ==
    IF k > Len(pool) THEN "none"
    ELSE IF passenger_roll < pool[k].weight THEN pool[k].kind
    ELSE pick_kind(pool, k + 1, passenger_roll - pool[k].weight)

\* randrange(0, len(floors) - 1) raises ValueError on an empty range
\* (elevator.py:179), and the for-else raises (elevator.py:192).
spawn_raises(st, d) ==
    /\ spawns(st, d)
    /\ \/ Len(st.floors) - 1 <= 0
       \/ pick_kind(passenger_pool, 1, d.roll) = "none"

spawn(st, d) ==
    IF ~spawns(st, d) \/ spawn_raises(st, d)
    THEN st
    ELSE LET passenger == NewPassenger(pick_kind(passenger_pool, 1, d.roll),
                                       target_floor_of(d.origin, d.target))
         IN  AddEvent([st EXCEPT !.floors[d.origin + 1].passengers = Append(@, passenger)],
                      EvNewPassenger(d.origin))

\* check_time with < for <=.
check_time_below_zero(st) ==
    IF st.time_remaining < 0
    THEN AddEvent([st EXCEPT !.failed = TRUE], EvOutOfTime(st.score))
    ELSE st

\* elevator.py:197-199
check_time(st) ==
    IF st.time_remaining <= 0
    THEN AddEvent([st EXCEPT !.failed = TRUE], EvOutOfTime(st.score))
    ELSE st

\* elevator.py:128-201.  When the spawner raises, the state is left as the
\* lines before the raise made it.
update(st, d) ==
    LET moved == update_elevators([st EXCEPT !.time_remaining = @ - 1], 1)
    IN  IF spawn_raises(moved, d)
        THEN moved
        ELSE check_time(spawn(moved, d))

\* The results of randrange(0, passenger_pool_total) (elevator.py:184).
Rolls == 0..(passenger_pool_total - 1)

\* The first and the last roll of every run of rolls that pick one kind: a
\* tick drawn any other roll does what it does for these.
EdgeRolls ==
    {r \in Rolls :
        \/ r = 0
        \/ r = passenger_pool_total - 1
        \/ pick_kind(passenger_pool, 1, r) # pick_kind(passenger_pool, 1, r - 1)
        \/ pick_kind(passenger_pool, 1, r) # pick_kind(passenger_pool, 1, r + 1)}

\* The draws a tick can make in state st.
Draws(st) ==
    LET n == Len(st.floors)
        hit == {u \in random_random : u < st.config.arrival_rate}
    IN  {[u |-> u, origin |-> 0, target |-> 0, roll |-> 0] : u \in random_random \ hit}
        \cup [u : hit, origin : 0..(n - 1),
              target : IF n > 1 THEN 0..(n - 2) ELSE {0},
              roll : EdgeRolls]

(***************************************************************************)
(* Command lines: str.startswith, str.split(' ') and int() on sequences    *)
(* of characters.                                                          *)
(***************************************************************************)
\* The decimal digits that int() reads (elevator.py:84, 96, 111): int()
\* takes the ten digits of every script (Unicode category Nd), each for its
\* value from 0 to 9, and a literal may mix scripts.  Digits lists, from
\* zero to nine, the ASCII digits and the digits of every other script
\* whose characters a string here can hold; the first code point of each
\* run is named above it.  The digits of the remaining scripts, such as
\* the Arabic-Indic U+0660 to U+0669 and the Devanagari U+0966 to U+096F,
\* int() reads in the same way; no line of the model is written in them.
Digits ==
    <<
      \* U+0030, Ascii
      <<"0", "1", "2", "3", "4", "5", "6", "7", "8", "9">>,
      \* U+06F0, Extended Arabic-Indic
      <<"۰", "۱", "۲", "۳", "۴", "۵", "۶", "۷", "۸", "۹">>,
      \* U+07C0, Nko
      <<"߀", "߁", "߂", "߃", "߄", "߅", "߆", "߇", "߈", "߉">>,
      \* U+09E6, Bengali
      <<"০", "১", "২", "৩", "৪", "৫", "৬", "৭", "৮", "৯">>,
      \* U+0AE6, Gujarati
      <<"૦", "૧", "૨", "૩", "૪", "૫", "૬", "૭", "૮", "૯">>,
      \* U+0BE6, Tamil
      <<"௦", "௧", "௨", "௩", "௪", "௫", "௬", "௭", "௮", "௯">>,
      \* U+0CE6, Kannada
      <<"೦", "೧", "೨", "೩", "೪", "೫", "೬", "೭", "೮", "೯">>,
      \* U+0DE6, Sinhala Lith
      <<"෦", "෧", "෨", "෩", "෪", "෫", "෬", "෭", "෮", "෯">>,
      \* U+0ED0, Lao
      <<"໐", "໑", "໒", "໓", "໔", "໕", "໖", "໗", "໘", "໙">>,
      \* U+1090, Myanmar Shan
      <<"႐", "႑", "႒", "႓", "႔", "႕", "႖", "႗", "႘", "႙">>,
      \* U+17E0, Khmer
      <<"០", "១", "២", "៣", "៤", "៥", "៦", "៧", "៨", "៩">>,
      \* U+19D0, New Tai Lue
      <<"᧐", "᧑", "᧒", "᧓", "᧔", "᧕", "᧖", "᧗", "᧘", "᧙">>,
      \* U+1A80, Tai Tham Hora
      <<"᪀", "᪁", "᪂", "᪃", "᪄", "᪅", "᪆", "᪇", "᪈", "᪉">>,
      \* U+1A90, Tai Tham Tham
      <<"᪐", "᪑", "᪒", "᪓", "᪔", "᪕", "᪖", "᪗", "᪘", "᪙">>,
      \* U+1BB0, Sundanese
      <<"᮰", "᮱", "᮲", "᮳", "᮴", "᮵", "᮶", "᮷", "᮸", "᮹">>,
      \* U+A8D0, Saurashtra
      <<"꣐", "꣑", "꣒", "꣓", "꣔", "꣕", "꣖", "꣗", "꣘", "꣙">>,
      \* U+A9D0, Javanese
      <<"꧐", "꧑", "꧒", "꧓", "꧔", "꧕", "꧖", "꧗", "꧘", "꧙">>,
      \* U+A9F0, Myanmar Tai Laing
      <<"꧰", "꧱", "꧲", "꧳", "꧴", "꧵", "꧶", "꧷", "꧸", "꧹">>,
      \* U+ABF0, Meetei Mayek
      <<"꯰", "꯱", "꯲", "꯳", "꯴", "꯵", "꯶", "꯷", "꯸", "꯹">>
    >>

\* The value of a decimal digit: its place in the run of its script.
DigitValue ==
    [c \in UNION {{Digits[r][k] : k \in 1..10} : r \in 1..Len(Digits)} |->
        (CHOOSE k \in 1..10 : \E r \in 1..Len(Digits) : Digits[r][k] = c) - 1]

IsDigit(c) == c \in DOMAIN DigitValue

startswith(action, prefix) ==
    /\ Len(action) >= Len(prefix)
    /\ SubSeq(action, 1, Len(prefix)) = prefix

\* action.split(' '): every single space separates, so two spaces in a row
\* give an empty token.  tok is the token being read at position k.
RECURSIVE split_from(_, _, _)
split_from(s, k, tok) ==
    IF k > Len(s) THEN <<tok>>
    ELSE IF s[k] = " " THEN <<tok>> \o split_from(s, k + 1, <<>>)
    ELSE split_from(s, k + 1, Append(tok, s[k]))

split(s) == split_from(s, 1, <<>>)

\* Whitespace characters that have no escape in a string here: the vertical
\* tab U+000B, the next-line control U+0085, the no-break space U+00A0 and
\* the Ogham space mark U+1680.
VT == ""
NEL == ""
NBSP == " "
OGHAM_SPACE == " "

\* The whitespace that int() strips from both ends of its argument.  Python
\* strips U+2000 to U+200A, U+2028, U+2029, U+202F, U+205F and U+3000 as
\* well, which a string here cannot hold; it does not strip U+001C to
\* U+001F.
Whitespace == {" ", "\t", "\n", "\r", "\f", VT, NEL, NBSP, OGHAM_SPACE}

\* sys.get_int_max_str_digits(), Python's default: int() raises ValueError
\* on a string of more digits.
INT_MAX_STR_DIGITS == 4300

RECURSIVE lstrip(_)
lstrip(x) == IF x # <<>> /\ x[1] \in Whitespace THEN lstrip(Tail(x)) ELSE x

RECURSIVE rstrip(_)
rstrip(x) ==
    IF x # <<>> /\ x[Len(x)] \in Whitespace THEN rstrip(SubSeq(x, 1, Len(x) - 1)) ELSE x

strip(x) == rstrip(lstrip(x))

\* int(x): whitespace at both ends is stripped; what is left is an optional
\* sign and at least one decimal digit, at most INT_MAX_STR_DIGITS of them,
\* with single underscores allowed between digits.  Anything else raises
\* ValueError.  The digits are those of every script (IsDigit), and the
\* limit counts digits only, not the sign, the underscores or the
\* whitespace.
int_ok(x) ==
    LET s == strip(x)
        lit == IF s # <<>> /\ s[1] \in {"-", "+"} THEN Tail(s) ELSE s
    IN  /\ lit # <<>>
        /\ \A k \in 1..Len(lit) :
              \/ IsDigit(lit[k])
              \/ /\ lit[k] = "_"
                 /\ 1 < k
                 /\ k < Len(lit)
                 /\ IsDigit(lit[k - 1])
                 /\ IsDigit(lit[k + 1])
        /\ Cardinality({k \in 1..Len(lit) : IsDigit(lit[k])}) <= INT_MAX_STR_DIGITS

\* The number that the first k characters of an integer literal without
\* sign denote: underscores do not count.
RECURSIVE unsigned_value(_, _)
unsigned_value(x, k) ==
    IF k = 0 THEN 0
    ELSE IF IsDigit(x[k]) THEN 10 * unsigned_value(x, k - 1) + DigitValue[x[k]]
    ELSE unsigned_value(x, k - 1)

\* The value of int(x) where int_ok(x).
int_value(x) ==
    LET s == strip(x)
    IN  IF s[1] = "-" THEN 0 - unsigned_value(Tail(s), Len(s) - 1)
        ELSE IF s[1] = "+" THEN unsigned_value(Tail(s), Len(s) - 1)
        ELSE unsigned_value(s, Len(s))

\* [int(x) for x in action.split(' ')[1:]] (elevator.py:84, 96, 111):
\* ok is FALSE when an int() raises.
parse_args(action) ==
    LET toks == Tail(split(action))
    IN  IF \A k \in 1..Len(toks) : int_ok(toks[k])
        THEN [ok |-> TRUE, args |-> [k \in 1..Len(toks) |-> int_value(toks[k])]]
        ELSE [ok |-> FALSE, args |-> <<>>]

(***************************************************************************)
(* Command interpreter (elevator.py:77-126).                               *)
(***************************************************************************)
QUIT == <<"q", "u", "i", "t">>
GO == <<"g", "o">>
DUMP == <<"d", "u", "m", "p">>
CLOSE == <<"c", "l", "o", "s", "e">>

\* go_valid without the upper bound on the floor index.
go_valid_any_floor(st, args) ==
    /\ Len(args) = 2
    /\ ~(args[1] >= Len(st.elevators))
    /\ ~(args[1] < 0 \/ args[2] < 0)

\* elevator.py:85-87: no check raises.
go_valid(st, args) ==
    /\ Len(args) = 2
    /\ ~(args[1] >= Len(st.elevators) \/ args[2] >= Len(st.floors))
    /\ ~(args[1] < 0 \/ args[2] < 0)

\* handle_go with insert(0, ...) for append(...).
handle_go_prepend(st, action) ==
    LET p == parse_args(action)
    IN  IF p.ok /\ go_valid(st, p.args)
        THEN [st EXCEPT !.elevators[p.args[1] + 1].going_to = <<p.args[2]>> \o @]
        ELSE AddEvent(st, EvInvalidGo)

\* elevator.py:83-92
handle_go(st, action) ==
    LET p == parse_args(action)
    IN  IF p.ok /\ go_valid(st, p.args)
        THEN [st EXCEPT !.elevators[p.args[1] + 1].going_to = Append(@, p.args[2])]
        ELSE AddEvent(st, EvInvalidGo)

\* dump_valid without the test for the top floor.
dump_valid_any_floor(st, args) ==
    /\ Len(args) = 1
    /\ ~(args[1] < 0 \/ args[1] >= Len(st.elevators))

\* elevator.py:97-101: no check raises.
dump_valid(st, args) ==
    /\ Len(args) = 1
    /\ ~(args[1] < 0 \/ args[1] >= Len(st.elevators))
    /\ ~(st.elevators[args[1] + 1].floor < Len(st.floors) - 1)

\* elevator.py:95-107
handle_dump(st, action) ==
    LET p == parse_args(action)
    IN  IF p.ok /\ dump_valid(st, p.args)
        THEN LET e == p.args[1] + 1
             IN  [AddEvent(st, EvDumped(Len(st.elevators[e].passengers)))
                     EXCEPT !.elevators[e].passengers = <<>>]
        ELSE AddEvent(st, EvInvalidDump(Len(st.floors) - 1))

\* elevator.py:112-113: no check raises.
close_valid(st, args) ==
    /\ Len(args) = 1
    /\ ~(args[1] < 0 \/ args[1] >= Len(st.elevators))

\* elevator.py:110-121
handle_close(st, action) ==
    LET p == parse_args(action)
    IN  IF p.ok /\ close_valid(st, p.args)
        THEN LET e == p.args[1]
             IN  [AddEvent(st, EvClosed(e)) EXCEPT !.elevators[e + 1].doors_open = FALSE]
        ELSE AddEvent(st, EvInvalidClose)

\* elevator.py:77-126; d is the random source of the tick an empty action
\* runs.  'quit' calls exit() and returns nothing: the state stays as it is.
handle_action(st, action, d) ==
    IF action = QUIT THEN st
    ELSE IF action = <<>> THEN update(st, d)
    ELSE IF startswith(action, GO) THEN handle_go(st, action)
    ELSE IF startswith(action, DUMP) THEN handle_dump(st, action)
    ELSE IF startswith(action, CLOSE) THEN handle_close(st, action)
    ELSE AddEvent(st, EvInvalidAction(action))

\* An exception that leaves handle_action ends the program (elevator.py:80
\* is outside every try).
update_raises(st, d) ==
    spawn_raises(update_elevators([st EXCEPT !.time_remaining = @ - 1], 1), d)

\* elevator.py:71
clear_events(st) == [st EXCEPT !.events = <<>>]

RECURSIVE CountSeq(_, _)
CountSeq(s, k) == IF k > Len(s) THEN 0 ELSE Len(s[k].passengers) + CountSeq(s, k + 1)

\* elevator.py:63: the number of passengers waiting on the floors.
WaitingCount(st) == CountSeq(st.floors, 1)

\* The loop that main_loop is in when the test of line 63 is made on st:
\* "warmup" is the loop of lines 63-64, "running" that of lines 66-72, which
\* main_loop never leaves for the first.
Loop(st) == IF WaitingCount(st) = 0 THEN "warmup" ELSE "running"

\* elevator.py:66-72, one turn of main_loop on the input line `action`
\* that input() returns: it is taken only while the game has not failed.
\* EndOfInput is the turn in which input() raises instead.
Turn(action, d) ==
    /\ pc = "running"
    /\ ~state.failed
    /\ state' = handle_action(clear_events(state), action, d)
    /\ pc' = IF action = QUIT THEN "exited"
             ELSE IF action = <<>> /\ update_raises(clear_events(state), d) THEN "crashed"
             ELSE "running"

\* elevator.py:70: input() raises EOFError when the input has ended, and
\* KeyboardInterrupt when the player interrupts it.  Neither is caught: the
\* program ends before line 71, with the state as it was.
EndOfInput ==
    /\ pc = "running"
    /\ ~state.failed
    /\ pc' = "crashed"
    /\ UNCHANGED state

(***************************************************************************)
(* The input lines the player types.                                       *)
(***************************************************************************)
RECURSIVE Join(_)
Join(toks) ==
    IF Len(toks) = 1 THEN toks[1] ELSE toks[1] \o <<" ">> \o Join(Tail(toks))

\* str(k) for an integer k of one digit.
Num(k) == IF k < 0 THEN <<"-", Digits[1][1 - k]>> ELSE <<Digits[1][k + 1]>>

GOTO == GO \o <<"t", "o">>
DUMPSTER == DUMP \o <<"s", "t", "e", "r">>
CLOSET == CLOSE \o <<"t">>
EXIT == <<"e", "x", "i", "t">>

\* Lines that start with "go": every pair of indices of the largest
\* building, each index one below and one past its range, a longer word
\* with the same prefix, malformed argument lists, and integers written
\* with a sign, leading zeros, an underscore, whitespace other than the
\* blank around them, or the digits of other scripts.
GoLines ==
    {Join(<<GO, Num(e), Num(f)>>) : e \in 0..(MaxElevators - 1), f \in 0..(MaxFloors - 1)}
    \cup {Join(<<GO, Num(e), Num(0)>>) : e \in {-1, MaxElevators}}
    \cup {Join(<<GO, Num(0), Num(f)>>) : f \in {-1, MaxFloors}}
    \cup {Join(<<GOTO, Num(0), Num(0)>>),
          GO, Join(<<GO, Num(0)>>), Join(<<GO, Num(0), Num(0), Num(0)>>),
          Join(<<GO, <<"x">>, Num(0)>>), Join(<<GO, Num(0), <<>>, Num(0)>>),
          Join(<<GO, <<"+", "0">>, <<"0", "0">>>>),
          Join(<<GO, <<"\t", "0">>, <<"0", "_", "1">>>>),
          Join(<<GO, <<VT, "0">>, <<NBSP, "1">>>>),
          Join(<<GO, <<"۰">>, <<"۱">>>>),
          Join(<<GO, <<"০">>, <<"0", "_", "૧">>>>)}

DumpLines ==
    {Join(<<DUMP, Num(e)>>) : e \in -1..MaxElevators}
    \cup {Join(<<DUMPSTER, Num(0)>>), DUMP, Join(<<DUMP, <<"x">>>>),
          Join(<<DUMP, Num(0), Num(0)>>),
          Join(<<DUMP, <<"۰">>>>), Join(<<DUMP, <<"+", "໑">>>>)}

CloseLines ==
    {Join(<<CLOSE, Num(e)>>) : e \in -1..MaxElevators}
    \cup {Join(<<CLOSET, Num(0)>>), CLOSE, Join(<<CLOSE, <<"x">>>>),
          Join(<<CLOSE, Num(0), Num(0)>>),
          Join(<<CLOSE, <<"0", "_", "0">>>>), Join(<<CLOSE, <<"_", "0">>>>),
          Join(<<CLOSE, <<OGHAM_SPACE, "0", NEL>>>>),
          Join(<<CLOSE, <<"۰">>>>), Join(<<CLOSE, <<"០", "۱">>>>)}

\* Lines that reach the final else of handle_action.
OtherLines ==
    {EXIT, <<"G", "o", " ">> \o Join(<<Num(0), Num(0)>>)}

(***************************************************************************)
(* The State that a caller constructs (elevator.py:219-224): nf floors, ne *)
(* elevators at floor 0 with open doors and one common capacity, score 0,  *)
(* and the passengers already waiting, each on a floor other than its      *)
(* target.  `waiting` lists them as <<origin floor, passenger>>.           *)
(***************************************************************************)
RECURSIVE WaitingAt(_, _)
WaitingAt(waiting, f) ==
    IF waiting = <<>> THEN <<>>
    ELSE (IF waiting[1][1] = f THEN <<waiting[1][2]>> ELSE <<>>)
         \o WaitingAt(Tail(waiting), f)

InitState(nf, ne, capacity, rate, waiting, time) ==
    [config |-> [arrival_rate |-> rate],
     score |-> 0,
     failed |-> FALSE,
     time_remaining |-> time,
     floors |-> [f \in 1..nf |-> NewFloor(WaitingAt(waiting, f - 1))],
     elevators |-> [e \in 1..ne |-> NewElevator(0, TRUE, capacity)],
     events |-> <<>>]

\* One passenger of any kind waiting at floor 0, where the elevators start,
\* for any other floor.
OneWaiting(nf) ==
    {<<<<0, NewPassenger(k, t)>>>> : t \in 1..(nf - 1), k \in Kinds}

World(nf, ne, capacity, rate, waiting, time) ==
    [nf |-> nf, ne |-> ne, capacity |-> capacity, rate |-> rate, waiting |-> waiting,
     time |-> time]

\* The clock of a game that is nearly over, and the clock that lets one
\* passenger be taken up a floor before the game fails.
LateTime == MaxTime - 4
RideTime == MaxTime - 2

\* No arrivals and nobody waiting, late in the game: the shapes of building
\* with at most MaxFloors + 1 floors and elevators together.
EmptyWorlds ==
    {World(s[1], s[2], MaxCapacity, 0, <<>>, LateTime) :
        s \in {p \in (1..MaxFloors) \X (1..MaxElevators) : p[1] + p[2] <= MaxFloors + 1}}

\* No arrivals, one elevator of capacity MaxCapacity, or of capacity 0 in a
\* building of two floors, and one passenger waiting, late in the game.
WaitingWorlds ==
    UNION {{World(s[1], 1, s[2], 0, waiting, LateTime) : waiting \in OneWaiting(s[1])} :
              s \in ((2..MaxFloors) \X {MaxCapacity}) \cup {<<2, 0>>}}

\* No arrivals, two floors, one elevator of capacity MaxCapacity and one
\* passenger waiting, with time enough to deliver the passenger.
RideWorlds ==
    {World(2, 1, MaxCapacity, 0, waiting, RideTime) : waiting \in OneWaiting(2)}

\* Arrivals (rate 1/2 or 1) in a building of fewer floors, with one elevator
\* of capacity 1, late in the game.
BusyWorlds ==
    {World(nf, 1, 1, rate, <<>>, LateTime) :
        nf \in 1..(MaxFloors - 1), rate \in ArrivalRates \ {0}}

\* No arrivals, three floors, one elevator of capacity MaxCapacity and two
\* ordinary passengers waiting at floor 0, the first for floor 1 and the
\* second for floor 2: the second boards in front of the first, and is in
\* its way at floor 1.
LobbyWorlds ==
    {World(3, 1, MaxCapacity, 0,
           <<<<0, NewPassenger("Passenger", 1)>>, <<0, NewPassenger("Passenger", 2)>>>>,
           MaxTime)}

\* No arrivals, two elevators of capacity MaxCapacity in a building of two
\* or three floors, and one ordinary passenger waiting at floor 0 for
\* floor 1, late in the game.
PairWorlds ==
    {World(nf, MaxElevators, MaxCapacity, 0, <<<<0, NewPassenger("Passenger", 1)>>>>,
           LateTime) : nf \in 2..MaxFloors}

\* No arrivals, two floors, one elevator of capacity 1 and two ordinary
\* passengers waiting at floor 0 for floor 1, late in the game: more than
\* the elevator takes.
CrowdWorlds ==
    {World(2, 1, 1, 0,
           <<<<0, NewPassenger("Passenger", 1)>>, <<0, NewPassenger("Passenger", 1)>>>>,
           LateTime)}

Worlds ==
    EmptyWorlds \cup WaitingWorlds \cup RideWorlds \cup BusyWorlds \cup LobbyWorlds
        \cup PairWorlds \cup CrowdWorlds

Init ==
    /\ \E w \in Worlds :
          state = InitState(w.nf, w.ne, w.capacity, w.rate, w.waiting, w.time)
    /\ pc = Loop(state)

(***************************************************************************)
(* Actions: the update of main_loop's first loop, and one turn of its      *)
(* second loop per branch of handle_action.                                *)
(***************************************************************************)
RECURSIVE CountQueued(_, _)
CountQueued(s, k) == IF k > Len(s) THEN 0 ELSE Len(s[k].going_to) + CountQueued(s, k + 1)

QueuedCount(st) == CountQueued(st.elevators, 1)

\* The passengers of st: those waiting on the floors and those riding in
\* the elevators.
PassengerCount(st) == WaitingCount(st) + CountSeq(st.elevators, 1)

NoDraw == [u |-> 0, origin |-> 0, target |-> 0, roll |-> 0]

\* elevator.py:63-64: while nobody waits on any floor main_loop calls
\* update, whether the game has failed or not, and keeps the log.
WarmUp ==
    /\ pc = "warmup"
    /\ state.time_remaining > 0 - MaxOvertime
    /\ \E d \in Draws(state) :
          /\ state' = update(state, d)
          /\ pc' = IF update_raises(state, d) THEN "crashed" ELSE Loop(state')

\* A turn on the empty line (elevator.py:66-72 and 80).
Tick ==
    /\ state.time_remaining <= MaxTime
    /\ \E d \in Draws(state) :
          /\ Turn(<<>>, d)
          /\ PassengerCount(state') <= MaxPassengers

\* A turn on the line quit (elevator.py:66-72 and 78).
Quit == Turn(QUIT, NoDraw)

\* A turn on a line that starts with "go" (elevator.py:66-72 and 82-92).
Go ==
    \E a \in GoLines :
       /\ Turn(a, NoDraw)
       /\ QueuedCount(state') <= MaxGoingTo

\* A turn on a line that starts with "dump" (elevator.py:66-72 and 94-107).
Dump == \E a \in DumpLines : Turn(a, NoDraw)

\* A turn on a line that starts with "close" (elevator.py:66-72 and 109-121).
Close == \E a \in CloseLines : Turn(a, NoDraw)

\* A turn on any other line (elevator.py:66-72 and 123-124).
Other == \E a \in OtherLines : Turn(a, NoDraw)

Next == WarmUp \/ Tick \/ Quit \/ Go \/ Dump \/ Close \/ Other \/ EndOfInput

Spec == Init /\ [][Next]_vars

(***************************************************************************)
(* The scenario of the specification's section 8, on the State that main   *)
(* constructs (elevator.py:219-224) for 3 floors, 1 elevator and arrival   *)
(* rate 0, with one ordinary passenger waiting at floor 2 for floor 0.     *)
(* The player types "go 0 2", perhaps "go 0 0", and from then on only      *)
(* empty lines; main_loop stops asking once failed is set                  *)
(* (elevator.py:66).                                                       *)
(***************************************************************************)
ScenInit ==
    /\ state = InitState(3, 1, ELEVATOR_CAPACITY, 0,
                         <<<<2, NewPassenger("Passenger", 0)>>>>, INITIAL_TIME)
    /\ pc = Loop(state)

ScenGo ==
    /\ state.time_remaining = INITIAL_TIME
    /\ \/ state.elevators[1].going_to = <<>> /\ Turn(Join(<<GO, Num(0), Num(2)>>), NoDraw)
       \/ state.elevators[1].going_to = <<2>> /\ Turn(Join(<<GO, Num(0), Num(0)>>), NoDraw)

ScenTick ==
    /\ state.elevators[1].going_to # <<>> \/ state.time_remaining < INITIAL_TIME
    /\ \E d \in Draws(state) : Turn(<<>>, d)

ScenNext == ScenGo \/ ScenTick

ScenarioSpec == ScenInit /\ [][ScenNext]_vars /\ WF_vars(ScenTick)

(***************************************************************************)
(* Properties.                                                             *)
(***************************************************************************)
Elevators(st) == 1..Len(st.elevators)
Floors(st) == 1..Len(st.floors)

\* The state one turn on the input line a makes of the current state.
After(a, d) == handle_action(clear_events(state), a, d)

GoLine(e, f) == Join(<<GO, Num(e), Num(f)>>)

\* "go e f" with both indices written in the digits of script r.
GoLineIn(r, e, f) == Join(<<GO, <<Digits[r][e + 1]>>, <<Digits[r][f + 1]>>>>)

\* C1: for every valid elevator index e and floor index f, the turn "go e f"
\* appends f at the end of elevator e's going_to and changes nothing else;
\* it logs no event.  The indices are written in ASCII digits or in those
\* of another script: here the first and the last other script of Digits.
C1_GoAppendsOnly ==
    \A e \in 0..(Len(state.elevators) - 1), f \in 0..(Len(state.floors) - 1) :
        \A r \in {1, 2, Len(Digits)} :
            After(GoLineIn(r, e, f), NoDraw) =
                [clear_events(state) EXCEPT !.elevators[e + 1].going_to = Append(@, f)]

\* A destination was appended behind a different one, and nothing logged.
C1_Witness ==
    /\ pc = "running"
    /\ state.events = <<>>
    /\ \E e \in Elevators(state) :
          /\ Len(state.elevators[e].going_to) = 2
          /\ state.elevators[e].going_to[1] # state.elevators[e].going_to[2]

\* The parts of the state that must freeze once the simulation has failed.
SameBoard(s, t) ==
    /\ t.score = s.score
    /\ \A e \in Elevators(s) :
          /\ t.elevators[e].floor = s.elevators[e].floor
          /\ t.elevators[e].passengers = s.elevators[e].passengers
    /\ \A f \in Floors(s) : t.floors[f].passengers = s.floors[f].passengers

\* C2: once failed is true, no call of handle_action, on the empty line or
\* on a command, changes score, an elevator's floor, or a passenger list of
\* a floor or an elevator.
C2_FailedFreezes ==
    state.failed =>
        /\ \A d \in Draws(state) : SameBoard(state, handle_action(state, <<>>, d))
        /\ \A a \in GoLines \cup DumpLines \cup CloseLines :
              SameBoard(state, handle_action(state, a, NoDraw))

\* C3: every elevator with capacity > 0 holds at most capacity passengers.
C3_CapacityInvariant ==
    \A e \in Elevators(state) :
        state.elevators[e].capacity > 0 =>
            Len(state.elevators[e].passengers) <= state.elevators[e].capacity

InLog(st, ev) == \E k \in 1..Len(st.events) : st.events[k] = ev

\* A tick without arrival closed the doors of a full elevator on a floor
\* where somebody waits: the capacity test refused to board.
C3_Witness ==
    \E e \in Elevators(state) :
        /\ state.elevators[e].capacity > 0
        /\ Len(state.elevators[e].passengers) = state.elevators[e].capacity
        /\ ~state.elevators[e].doors_open
        /\ state.floors[state.elevators[e].floor + 1].passengers # <<>>
        /\ InLog(state, EvReady(e - 1))
        /\ \A f \in Floors(state) : ~InLog(state, EvNewPassenger(f - 1))

\* The scenario's outcome: the elevator is back at floor 0, the passenger
\* has left the system, score is 1 and the turn logged the drop-off.
Delivered ==
    /\ state.elevators[1].floor = 0
    /\ state.score = 1
    /\ InLog(state, EvDroppedOff(0))
    /\ PassengerCount(state) = 0

Boarded ==
    /\ state.elevators[1].floor = 2
    /\ state.elevators[1].passengers = <<NewPassenger("Passenger", 0)>>
    /\ state.floors[3].passengers = <<>>

\* C4 as claimed: after "go 0 2" and then only idle ticks the passenger is
\* eventually delivered at floor 0 for +1 and a drop-off event.
C4_Go2Delivers ==
    (state.time_remaining = INITIAL_TIME - 1 /\ state.elevators[1].going_to = <<2>>)
        ~> Delivered

\* C4 amended: after "go 0 2" and "go 0 0" and then only idle ticks the
\* elevator eventually stands at floor 2 with the passenger on board, and
\* after that the passenger is delivered at floor 0 for +1 and a drop-off
\* event.
C4_Go2Go0Delivers ==
    (state.time_remaining = INITIAL_TIME - 1 /\ state.elevators[1].going_to = <<2, 0>>)
        ~> (Boarded /\ <>Delivered)

C4_Witness == Delivered /\ state.time_remaining < INITIAL_TIME

\* No floor has a waiting passenger, no elevator a destination, and nobody
\* arrives.
Quiescent(st) ==
    /\ st.config.arrival_rate = 0
    /\ \A f \in Floors(st) : st.floors[f].passengers = <<>>
    /\ \A e \in Elevators(st) : st.elevators[e].going_to = <<>>

SameQueues(s, t) ==
    /\ SameBoard(s, t)
    /\ \A e \in Elevators(s) : t.elevators[e].going_to = s.elevators[e].going_to

IsTick == \E d \in Draws(state) : state' = After(<<>>, d)

\* C5 as claimed: an idle tick in a quiescent state, taken before the game
\* has failed, leaves score, the elevators' floors and every queue and
\* passenger list unchanged.
C5_QuiescentIdle ==
    [][(~state.failed /\ Quiescent(state) /\ IsTick) => SameQueues(state, state')]_vars

\* Quiescent, and no elevator with open doors carries a rider for its floor.
Settled(st) ==
    /\ Quiescent(st)
    /\ \A e \in Elevators(st) :
          st.elevators[e].doors_open => getting_out(st.elevators[e]) < 0

\* C5 amended: an idle tick in a settled state leaves score, the elevators'
\* floors and every queue and passenger list unchanged, takes 1 from
\* time_remaining, and leaves the state settled, so that any number of idle
\* ticks do.
C5_SettledIdle ==
    Settled(state) =>
        \A d \in Draws(state) :
            LET t == After(<<>>, d)
            IN  /\ SameQueues(state, t)
                /\ t.time_remaining = state.time_remaining - 1
                /\ Settled(t)

\* The last turn was an idle tick in a settled state with a rider on board:
\* all doors are shut and nothing was logged.
C5_Witness ==
    /\ pc = "running"
    /\ Settled(state)
    /\ state.events = <<>>
    /\ state.time_remaining < MaxTime
    /\ \A e \in Elevators(state) : ~state.elevators[e].doors_open
    /\ \E e \in Elevators(state) : state.elevators[e].passengers # <<>>

\* Elevator e drops its front rider in the next tick.
Debarks(st, e) ==
    /\ st.elevators[e].doors_open
    /\ st.elevators[e].passengers # <<>>
    /\ Head(st.elevators[e].passengers).target_floor = st.elevators[e].floor

Debarking(st) == {e \in Elevators(st) : Debarks(st, e)}

BonusEvents(st) ==
    {st.events[k] : k \in {j \in 1..Len(st.events) : st.events[j].msg = "+{} bonus score!"}}

\* C6 as claimed: a tick, taken before the game has failed, in which one
\* rider disembarks changes score by the amount the bonus event announces if
\* the rider is a VIP, and by another amount otherwise.
C6_VipScoresAnnounced ==
    [][\A e \in Elevators(state) :
          (~state.failed /\ Debarking(state) = {e} /\ IsTick) =>
              IF Head(state.elevators[e].passengers).kind = "VIP"
              THEN \E ev \in BonusEvents(state') : state'.score - state.score = ev.n[1]
              ELSE state'.score - state.score # VIP_BONUS_ANNOUNCED]_vars

\* C6 amended: a tick in which one rider disembarks adds exactly 11 to score
\* and logs the bonus event, which announces 10, if the rider is a VIP; it
\* changes score by another amount and logs no bonus otherwise.
C6_VipScoresEleven ==
    \A e \in Elevators(state) :
        Debarking(state) = {e} =>
            \A d \in Draws(state) :
                LET t == After(<<>>, d)
                IN  IF Head(state.elevators[e].passengers).kind = "VIP"
                    THEN /\ t.score = state.score + 11
                         /\ BonusEvents(t) = {Event("+{} bonus score!", <<10>>, <<>>)}
                    ELSE /\ t.score - state.score # 11
                         /\ BonusEvents(t) = {}

\* A VIP has just been dropped off.
C6_Witness ==
    /\ ~state.failed
    /\ state.score = 11
    /\ BonusEvents(state) # {}
    /\ \E e \in Elevators(state) : InLog(state, EvDroppedOff(e - 1))

DumpLine(e) == Join(<<DUMP, Num(e)>>)

\* The lines "dump e" of the model: e as str(e) writes it and, for e >= 0,
\* in the digits of another script.
DumpSpellings(e) ==
    {DumpLine(e)} \cup (IF e >= 0 THEN {Join(<<DUMP, <<Digits[2][e + 1]>>>>)} ELSE {})

\* C7: "dump e" for an e that is no elevator index, or whose elevator is not
\* on the top floor, logs exactly one error event and changes nothing else.
C7_InvalidDump ==
    \A e \in -1..MaxElevators :
        (\/ e < 0
         \/ e >= Len(state.elevators)
         \/ state.elevators[e + 1].floor # Len(state.floors) - 1) =>
            \A a \in DumpSpellings(e) :
                handle_action(state, a, NoDraw) =
                    AddEvent(state, EvInvalidDump(Len(state.floors) - 1))

\* A dump was refused for a loaded elevator below the top floor.
C7_Witness ==
    /\ state.events = <<EvInvalidDump(Len(state.floors) - 1)>>
    /\ \E e \in Elevators(state) :
          /\ state.elevators[e].passengers # <<>>
          /\ state.elevators[e].floor < Len(state.floors) - 1

\* The "go" lines that fail validation: a wrong number of arguments, a
\* non-integer, a negative index, an elevator index or a floor index past
\* the range.
BadGoLines(st) ==
    {GO, Join(<<GO, Num(0)>>), Join(<<GO, Num(0), Num(0), Num(0)>>),
     Join(<<GO, <<"x">>, Num(0)>>), Join(<<GO, Num(0), <<>>, Num(0)>>),
     GoLine(-1, 0), GoLine(0, -1), Join(<<GO, <<"۰">>, <<"۹">>>>)}
    \cup {GoLine(e, 0) : e \in Len(st.elevators)..MaxElevators}
    \cup {GoLine(0, f) : f \in Len(st.floors)..MaxFloors}

CloseLine(e) == Join(<<CLOSE, Num(e)>>)

BadCloseLines(st) ==
    {CLOSE, Join(<<CLOSE, Num(0), Num(0)>>), Join(<<CLOSE, <<"x">>>>), CloseLine(-1),
     Join(<<CLOSE, <<"_", "0">>>>), Join(<<CLOSE, <<"۹">>>>)}
    \cup {CloseLine(e) : e \in Len(st.elevators)..MaxElevators}

\* C8: a "go" or "close" line that fails validation logs exactly one error
\* event and changes nothing else.
C8_InvalidGoClose ==
    /\ \A a \in BadGoLines(state) :
          handle_action(state, a, NoDraw) = AddEvent(state, EvInvalidGo)
    /\ \A a \in BadCloseLines(state) :
          handle_action(state, a, NoDraw) = AddEvent(state, EvInvalidClose)

\* A "go" was refused while a destination was queued and a door open.
C8_Witness ==
    /\ state.events = <<EvInvalidGo>>
    /\ \E e \in Elevators(state) : state.elevators[e].going_to # <<>>
    /\ \E e \in Elevators(state) : state.elevators[e].doors_open

\* Lines whose command word is none of go, dump, close, quit and exit.
UnrecognizedLines ==
    {Join(<<GOTO, Num(0), Num(0)>>), Join(<<DUMPSTER, Num(0)>>),
     Join(<<CLOSET, Num(0)>>), <<"G", "o", " ">> \o Join(<<Num(0), Num(0)>>)}

SameButLog(s, t) ==
    /\ SameQueues(s, t)
    /\ t.time_remaining = s.time_remaining
    /\ \A e \in Elevators(s) : t.elevators[e].doors_open = s.elevators[e].doors_open

\* C9: a line whose command word is none of go, dump, close, quit and exit
\* logs an error event that names the line, and leaves the destination
\* queues, doors, passengers, score and time_remaining unchanged.
C9_UnrecognizedRejected ==
    [][\A a \in UnrecognizedLines :
          state' = After(a, NoDraw) =>
              /\ InLog(state', EvInvalidAction(a))
              /\ SameButLog(state, state')]_vars

\* C10: every elevator is on a floor of the building.
C10_FloorInRange ==
    \A e \in Elevators(state) :
        /\ 0 <= state.elevators[e].floor
        /\ state.elevators[e].floor < Len(state.floors)

\* An elevator has moved up to the top floor of a building of three floors
\* or more.
C10_Witness ==
    \E e \in Elevators(state) :
        /\ state.elevators[e].floor = Len(state.floors) - 1
        /\ state.elevators[e].floor >= 2

\* The command lines of the model: every line but the empty one.
CommandLines == GoLines \cup DumpLines \cup CloseLines \cup OtherLines \cup {QUIT}

\* C11: in a tick an elevator whose floor changes has its doors shut before
\* and after, and an elevator whose doors are open keeps its floor; no
\* command changes an elevator's floor.
C11_DoorsOpenOnlyStationary ==
    /\ \A d \in Draws(state) : \A t \in {After(<<>>, d)} :
          \A e \in Elevators(state) :
              /\ t.elevators[e].floor # state.elevators[e].floor =>
                    ~state.elevators[e].doors_open /\ ~t.elevators[e].doors_open
              /\ state.elevators[e].doors_open =>
                    t.elevators[e].floor = state.elevators[e].floor
    /\ \A a \in CommandLines : \A t \in {After(a, NoDraw)} :
          \A e \in Elevators(state) :
              t.elevators[e].floor = state.elevators[e].floor

\* An elevator is between its start and its destination, doors shut.
C11_Witness ==
    \E e \in Elevators(state) :
        /\ state.elevators[e].floor = 1
        /\ ~state.elevators[e].doors_open
        /\ state.elevators[e].going_to # <<>>
        /\ state.elevators[e].going_to[1] = 2

\* The integer that a line names for "dump" (elevator.py:94-97): the line
\* starts with "dump" and what follows its first blank is one integer.  Any
\* other line has the target -1.
DumpTarget ==
    [a \in CommandLines |->
        IF startswith(a, DUMP) /\ parse_args(a).ok /\ Len(parse_args(a).args) = 1
        THEN parse_args(a).args[1]
        ELSE -1]

\* The load that the line takes away (elevator.py:98-104): that of the
\* elevator it names, if there is such an elevator and it does not stand
\* below the top floor.
DumpedBy(st, a) ==
    LET e == DumpTarget[a]
    IN  IF /\ ~(e < 0 \/ e >= Len(st.elevators))
           /\ ~(st.elevators[e + 1].floor < Len(st.floors) - 1)
        THEN Len(st.elevators[e + 1].passengers)
        ELSE 0

\* C12: a tick changes the number of passengers on floors and in elevators
\* by +1 if it spawns and by -1 for each rider who leaves an elevator at its
\* target floor; a dump that the interpreter accepts takes the elevator's
\* load away; every other command conserves the number.
C12_PassengersConserved ==
    /\ \A d \in Draws(state) : \A t \in {After(<<>>, d)} :
          PassengerCount(t) =
              PassengerCount(state) - Cardinality(Debarking(state))
                  + (IF spawns(state, d) /\ ~update_raises(state, d) THEN 1 ELSE 0)
    /\ \A a \in CommandLines : \A t \in {After(a, NoDraw)} :
          PassengerCount(t) = PassengerCount(state) - DumpedBy(state, a)

\* The front rider was in the way of the rider behind it and has been put
\* back on the floor: both passengers are still there.
C12_Witness ==
    \E e \in Elevators(state) :
        /\ state.elevators[e].floor = 1
        /\ state.elevators[e].doors_open
        /\ state.elevators[e].passengers = <<NewPassenger("Passenger", 1)>>
        /\ state.floors[2].passengers = <<NewPassenger("Passenger", 2)>>

\* The elevators whose front rider, a Mechanic, leaves in the next tick.
MechanicsOut(st) ==
    {e \in Debarking(st) : Head(st.elevators[e].passengers).kind = "Mechanic"}

\* C13: every tick takes exactly 1 from time_remaining, whatever else it
\* does, the tick in which the spawner raises included, and adds 20 for
\* each Mechanic it drops off.  A tick that reaches its end (elevator.py:197)
\* sets failed exactly when time_remaining, with those 20s added, ends at 0
\* or less, and never resets it; a tick that the spawner's exception ends
\* before that line leaves failed as it was.  No command changes
\* time_remaining or failed.
C13_TimeBudget ==
    /\ \A d \in Draws(state) : \A t \in {After(<<>>, d)} :
          /\ t.time_remaining =
                state.time_remaining - 1 + 20 * Cardinality(MechanicsOut(state))
          /\ ~update_raises(state, d) =>
                t.failed = (state.failed \/ t.time_remaining <= 0)
          /\ update_raises(state, d) => t.failed = state.failed
    /\ \A a \in CommandLines : \A t \in {After(a, NoDraw)} :
          /\ t.time_remaining = state.time_remaining
          /\ t.failed = state.failed

\* A tick that began with time_remaining 1 dropped off a Mechanic: the
\* clock passed 0 inside the tick and the game has not failed.
C13_Witness ==
    /\ ~state.failed
    /\ state.time_remaining = 20
    /\ InLog(state, EvMechanic)

\* C14: the tick's step for an elevator of capacity 0 whose doors are open
\* on a floor where somebody waits, and in which no rider wants that floor,
\* boards the front waiting passenger, however many riders it carries.
C14_CapacityZeroUnbounded ==
    \A e \in Elevators(state) :
        (/\ state.elevators[e].capacity = 0
         /\ state.elevators[e].doors_open
         /\ state.floors[state.elevators[e].floor + 1].passengers # <<>>
         /\ getting_out(state.elevators[e]) < 0) =>
            \A t \in {elevator_step(state, e)} :
                t.elevators[e].passengers =
                    <<Head(state.floors[state.elevators[e].floor + 1].passengers)>>
                        \o state.elevators[e].passengers

\* The state of a tick after the loop over the elevators (elevator.py:172).
AfterElevators(st) == update_elevators([st EXCEPT !.time_remaining = @ - 1], 1)

\* t is st with one passenger more, at the back of the line of a floor
\* other than the passenger's target, which is a floor of the building.
OneArrival(st, t) ==
    \E o \in Floors(st) :
        \E p \in [kind : Kinds, target_floor : (0..(Len(st.floors) - 1)) \ {o - 1}] :
            t.floors = [st.floors EXCEPT ![o].passengers = Append(@, p)]

\* C15: whatever the floor count and the draws, a tick whose arrival test
\* succeeds runs to its end and puts exactly one passenger, for a floor of
\* the building other than its origin, at the back of the origin's line; a
\* tick whose arrival test fails puts nobody on a floor.
C15_SpawnOneValidPassenger ==
    \A d \in Draws(state) : \A t \in {After(<<>>, d)} :
        IF spawns(state, d)
        THEN ~update_raises(clear_events(state), d) /\ OneArrival(AfterElevators(state), t)
        ELSE t.floors = AfterElevators(state).floors

\* What a disembark of each kind adds to score.
ScoreFor(kind) ==
    IF kind = "VIP" THEN 11 ELSE IF kind = "Brick" THEN 0 - 5
    ELSE IF kind = "Mechanic" THEN 0 ELSE 1

\* C16: the tick's step for an open-door elevator in which some rider wants
\* the current floor takes exactly the front rider out and leaves the doors
\* open.  A front rider who wants this floor disembarks: it is scored, the
\* drop-off is logged and no floor's line changes.  Any other front rider
\* goes to the front of this floor's line: score and log are unchanged.
\* Nobody boards.
C16_OnlyFrontRiderExits ==
    \A e \in Elevators(state) :
        (state.elevators[e].doors_open /\ getting_out(state.elevators[e]) >= 0) =>
            \A t \in {elevator_step(state, e)} :
                LET elevator == state.elevators[e]
                    front == Head(elevator.passengers)
                IN  /\ t.elevators[e] = [elevator EXCEPT !.passengers = Tail(@)]
                    /\ IF front.target_floor = elevator.floor
                       THEN /\ t.floors = state.floors
                            /\ t.score = state.score + ScoreFor(front.kind)
                            /\ Len(t.events) > Len(state.events)
                            /\ t.events[Len(state.events) + 1] = EvDroppedOff(e - 1)
                       ELSE /\ t.floors = [state.floors EXCEPT
                                              ![elevator.floor + 1].passengers = <<front>> \o @]
                            /\ t.score = state.score
                            /\ t.events = state.events

\* The front rider has been put back on floor 1, behind it the rider for
\* floor 1 is still on board; the doors are open, nothing was scored or
\* logged.
C16_Witness ==
    /\ Len(state.floors) = 3
    /\ state.score = 0
    /\ state.events = <<>>
    /\ state.floors[2].passengers = <<NewPassenger("Passenger", 2)>>
    /\ \E e \in Elevators(state) :
          /\ state.elevators[e].floor = 1
          /\ state.elevators[e].doors_open
          /\ state.elevators[e].passengers = <<NewPassenger("Passenger", 1)>>

(***************************************************************************)
(* Two elevators in a building of three floors without arrivals, and one   *)
(* or two passengers waiting at floor 0, where the elevators start: the    *)
(* first for floor 1, the second for floor 2.  The player sends the        *)
(* elevators to floors, shuts doors, and lets time pass until the game has *)
(* failed (elevator.py:66).                                                *)
(***************************************************************************)
TwoCarInit ==
    /\ \E waiting \in {<<<<0, NewPassenger("Passenger", 1)>>>>,
                       <<<<0, NewPassenger("Passenger", 1)>>,
                         <<0, NewPassenger("Passenger", 2)>>>>} :
          state = InitState(3, 2, MaxCapacity, 0, waiting, TwoCarTime)
    /\ pc = Loop(state)

TwoCarTick == \E d \in Draws(state) : Turn(<<>>, d)

TwoCarGo ==
    \E e \in 0..1, f \in 0..2 :
        /\ Turn(GoLine(e, f), NoDraw)
        /\ QueuedCount(state') <= MaxGoingTo

TwoCarClose == \E e \in 0..1 : Turn(CloseLine(e), NoDraw)

TwoCarNext == TwoCarTick \/ TwoCarGo \/ TwoCarClose

TwoCarSpec == TwoCarInit /\ [][TwoCarNext]_vars

\* Elevator e stands with open doors and room for a rider, and no rider in
\* it wants its floor: it boards if somebody waits.
ReadyToBoard(st, e) ==
    /\ st.elevators[e].doors_open
    /\ Len(st.elevators[e].passengers) < st.elevators[e].capacity
    /\ getting_out(st.elevators[e]) < 0

\* The front rider of elevator e is in the way of a rider behind it who
\* wants this floor: the next tick puts it back on the floor.
Bypassed(st, e) ==
    /\ st.elevators[e].doors_open
    /\ getting_out(st.elevators[e]) >= 0
    /\ Head(st.elevators[e].passengers).target_floor # st.elevators[e].floor

\* C17: a tick handles the elevators in ascending index order, each seeing
\* the floors' lines as the elevators before it left them.  Of two
\* elevators ready to board on one floor where somebody waits, the first
\* boards the front of the line, and the second boards the next in line, or
\* shuts its doors if there is none.  A rider whom the first elevator puts
\* back on the floor boards the second, ready on that floor, in the same
\* tick.
C17_AscendingIndexOrder ==
    \A d \in Draws(state) : \A t \in {After(<<>>, d)} :
        LET lo == state.elevators[1]
            hi == state.elevators[2]
            line == state.floors[lo.floor + 1].passengers
        IN  /\ (/\ lo.floor = hi.floor
                /\ ReadyToBoard(state, 1)
                /\ ReadyToBoard(state, 2)
                /\ line # <<>>) =>
                   /\ t.elevators[1].passengers = <<line[1]>> \o lo.passengers
                   /\ IF Len(line) >= 2
                      THEN /\ t.elevators[2].passengers = <<line[2]>> \o hi.passengers
                           /\ t.elevators[2].doors_open
                      ELSE /\ t.elevators[2].passengers = hi.passengers
                           /\ ~t.elevators[2].doors_open
            /\ (/\ lo.floor = hi.floor
                /\ Bypassed(state, 1)
                /\ ReadyToBoard(state, 2)) =>
                   /\ t.elevators[1].passengers = Tail(lo.passengers)
                   /\ t.elevators[2].passengers = <<Head(lo.passengers)>> \o hi.passengers
                   /\ t.floors[lo.floor + 1].passengers = line

\* Both elevators have come to floor 1 and opened their doors, the first
\* with the rider for floor 2 in front of the rider for floor 1, the second
\* empty: the tick from here takes the front rider from the first elevator
\* to the second.
C17_Witness ==
    /\ ~state.failed
    /\ state.elevators[1].floor = 1
    /\ state.elevators[2].floor = 1
    /\ Bypassed(state, 1)
    /\ ReadyToBoard(state, 2)
    /\ state.elevators[1].passengers =
          <<NewPassenger("Passenger", 2), NewPassenger("Passenger", 1)>>
    /\ state.elevators[2].passengers = <<>>

(***************************************************************************)
(* The spawner under every roll: a building of MaxFloors floors where a    *)
(* passenger arrives in every tick (arrival rate 1), late in the game.     *)
(* Nobody waits at the start, so that the first update is that of          *)
(* main_loop's first loop (elevator.py:63-64).                             *)
(***************************************************************************)
RollDraws(st) ==
    [u : {u \in random_random : u < st.config.arrival_rate},
     origin : 0..(Len(st.floors) - 1),
     target : 0..(Len(st.floors) - 2),
     roll : Rolls]

RollInit ==
    /\ state = InitState(MaxFloors, 1, MaxCapacity, 2, <<>>, LateTime)
    /\ pc = Loop(state)

RollWarmUp ==
    /\ pc = "warmup"
    /\ \E d \in RollDraws(state) :
          /\ state' = update(state, d)
          /\ pc' = IF update_raises(state, d) THEN "crashed" ELSE Loop(state')

RollTick ==
    \E d \in RollDraws(state) :
        /\ Turn(<<>>, d)
        /\ PassengerCount(state') <= MaxPassengers

RollNext == RollWarmUp \/ RollTick

RollSpec == RollInit /\ [][RollNext]_vars

\* The kind whose interval of rolls, with the kinds in the table's order
\* Passenger 10, Brick 0, VIP 3, Mechanic 1, holds r.
KindOfInterval(r) ==
    IF r < 10 THEN "Passenger"
    ELSE IF r < 10 + 0 THEN "Brick"
    ELSE IF r < 10 + 0 + 3 THEN "VIP"
    ELSE "Mechanic"

\* C18: for every roll r in [0, passenger_pool_total), which is [0, 14), the
\* draw picks the kind whose interval holds r, never Brick, whose weight is
\* 0, and never fails; and the passenger that a tick with roll r puts at the
\* back of a line is of that kind.
C18_KindByCumulativeWeight ==
    /\ Rolls = 0..13
    /\ \A r \in Rolls :
          /\ pick_kind(passenger_pool, 1, r) = KindOfInterval(r)
          /\ pick_kind(passenger_pool, 1, r) \notin {"Brick", "none"}
    /\ \A d \in RollDraws(state) : \A t \in {After(<<>>, d)} :
          /\ ~update_raises(clear_events(state), d)
          /\ LET line == t.floors[d.origin + 1].passengers
             IN  line # <<>> /\ line[Len(line)].kind = KindOfInterval(d.roll)

\* A Mechanic, whom only the last roll picks, waits behind a VIP on one
\* floor.
C18_Witness ==
    \E f \in Floors(state) :
        /\ Len(state.floors[f].passengers) = 2
        /\ state.floors[f].passengers[1].kind = "VIP"
        /\ state.floors[f].passengers[2].kind = "Mechanic"
        /\ InLog(state, EvNewPassenger(f - 1))

\* C19: the disembark of an ordinary passenger adds 1 to score and changes
\* nothing else; that of a Brick takes 5 from score; that of a Mechanic
\* leaves score and adds 20 to time_remaining; that of any other kind
\* leaves time_remaining.  The tick in which the rider leaves shows these
\* changes, with the tick's own 1 taken from time_remaining.
C19_DebarkByKind ==
    \A e \in Elevators(state) :
        Debarking(state) = {e} =>
            LET passenger == Head(state.elevators[e].passengers)
            IN  /\ \A t \in {handle_debark(state, passenger)} :
                      /\ passenger.kind = "Passenger" =>
                            t = [state EXCEPT !.score = @ + 1]
                      /\ passenger.kind = "Brick" => t.score = state.score - 5
                      /\ passenger.kind = "Mechanic" =>
                            /\ t.score = state.score
                            /\ t.time_remaining = state.time_remaining + 20
                      /\ passenger.kind # "Mechanic" =>
                            t.time_remaining = state.time_remaining
                /\ \A d \in Draws(state) : \A t \in {After(<<>>, d)} :
                      /\ passenger.kind = "Passenger" => t.score = state.score + 1
                      /\ passenger.kind = "Brick" => t.score = state.score - 5
                      /\ passenger.kind = "Mechanic" => t.score = state.score
                      /\ t.time_remaining = state.time_remaining - 1
                            + (IF passenger.kind = "Mechanic" THEN 20 ELSE 0)

\* A Brick has just been dropped off, before the game failed.
C19_Witness ==
    /\ ~state.failed
    /\ state.score = 0 - 5
    /\ InLog(state, EvBrick)
    /\ \E e \in Elevators(state) : InLog(state, EvDroppedOff(e - 1))

(***************************************************************************)
(* Serving the destination queue: three floors and one elevator.  Either   *)
(* the clock is that of main, the capacity 1 or MaxCapacity, the arrival   *)
(* rate 0 or 1/2, and one or two passengers wait at floor 0; or the clock  *)
(* is short, without arrivals, and one passenger waits at floor 0.         *)
(* Somebody waits at the start, so that main_loop is in its second loop at *)
(* once (elevator.py:63).  The player queues destinations before the first *)
(* tick and from then on types empty lines only, for as long as a          *)
(* destination is queued and the game has not failed (elevator.py:66).     *)
(***************************************************************************)
ServeInit ==
    /\ \/ \E capacity \in {1, MaxCapacity}, rate \in {0, 1},
             waiting \in {<<<<0, NewPassenger("Passenger", 2)>>>>,
                          <<<<0, NewPassenger("Passenger", 1)>>,
                            <<0, NewPassenger("Passenger", 2)>>>>} :
             state = InitState(3, 1, capacity, rate, waiting, INITIAL_TIME)
       \/ state = InitState(3, 1, MaxCapacity, 0,
                            <<<<0, NewPassenger("Passenger", 2)>>>>, MaxTime)
    /\ pc = Loop(state)

\* No tick has been taken: the clock is as ServeInit set it.
BeforeTicks(st) == st.time_remaining \in {INITIAL_TIME, MaxTime}

ServeGo ==
    \E f \in 0..2 :
        /\ BeforeTicks(state)
        /\ Turn(GoLine(0, f), NoDraw)
        /\ QueuedCount(state') <= MaxGoingTo

ServeTick ==
    /\ state.elevators[1].going_to # <<>>
    /\ \E d \in Draws(state) :
          /\ Turn(<<>>, d)
          /\ PassengerCount(state') <= MaxPassengers

ServeNext == ServeGo \/ ServeTick

ServeSpec == ServeInit /\ [][ServeNext]_vars /\ WF_vars(ServeTick)

\* A step pops the head of going_to: the elevator stands on that floor and
\* its doors, shut before, are open after.
Pops ==
    /\ state.elevators[1].going_to # <<>>
    /\ state'.elevators[1].going_to = Tail(state.elevators[1].going_to)
    /\ state.elevators[1].floor = Head(state.elevators[1].going_to)
    /\ state'.elevators[1].floor = state.elevators[1].floor
    /\ ~state.elevators[1].doors_open
    /\ state'.elevators[1].doors_open

\* A step moves the elevator: one floor, toward the head of going_to, with
\* the doors shut.
Moves ==
    /\ state.elevators[1].going_to # <<>>
    /\ ~state.elevators[1].doors_open
    /\ ~state'.elevators[1].doors_open
    /\ state'.elevators[1].floor =
          IF Head(state.elevators[1].going_to) > state.elevators[1].floor
          THEN state.elevators[1].floor + 1
          ELSE state.elevators[1].floor - 1

\* The queue changes only by a pop of its head, with the elevator on the
\* floor popped and its doors opening, or, before the ticks, by a command
\* that appends: destinations are served in the order queued.  The elevator
\* moves only one floor at a time toward the head of the queue.
ServedInOrder ==
    [][/\ state'.elevators[1].going_to # state.elevators[1].going_to =>
             \/ Pops
             \/ /\ BeforeTicks(state)
                /\ \E f \in 0..2 :
                      state'.elevators[1].going_to =
                          Append(state.elevators[1].going_to, f)
       /\ state'.elevators[1].floor # state.elevators[1].floor => Moves]_vars

Ticking == ~BeforeTicks(state) /\ state.elevators[1].going_to # <<>>

Dist(a, b) == IF a > b THEN a - b ELSE b - a

\* The most ticks that an elevator with open doors takes to shut them
\* (elevator.py:134-162): one for each rider down to the last rider for
\* this floor, who leave or are put back on the floor one per tick; one for
\* each place that is then free, which a waiting passenger may take; and
\* one in which the doors are shut.
OpenTicks(elevator) ==
    LET out == getting_out(elevator) + 1
        free == elevator.capacity - (Len(elevator.passengers) - out)
    IN  out + (IF free > 0 THEN free ELSE 0) + 1

\* The most ticks that an elevator with shut doors on `floor` takes to pop
\* every destination of going_to (elevator.py:164-171): one for each floor
\* on the way to the head and one to pop it, and, before it sets out for
\* the next, an open-door phase of at most 2 * capacity + 1 ticks.
RECURSIVE QueueTicks(_, _, _)
QueueTicks(floor, going_to, capacity) ==
    IF going_to = <<>> THEN 0
    ELSE Dist(floor, Head(going_to)) + 1
            + (IF Tail(going_to) = <<>> THEN 0
               ELSE 2 * capacity + 1
                       + QueueTicks(Head(going_to), Tail(going_to), capacity))

\* A bound on the ticks in which the elevator serves its queue.
TicksToServe(st) ==
    LET elevator == st.elevators[1]
    IN  IF elevator.going_to = <<>> THEN 0
        ELSE (IF elevator.doors_open THEN OpenTicks(elevator) ELSE 0)
                + QueueTicks(elevator.floor, elevator.going_to, elevator.capacity)

\* Every tick taken on a queue of destinations, whatever arrives in it,
\* lowers TicksToServe: no open-door phase lasts longer than OpenTicks, and
\* the queue is served within TicksToServe ticks.  (A step that changes
\* time_remaining is a tick.)
CloserEachTick ==
    [][(/\ state.elevators[1].going_to # <<>>
        /\ state'.time_remaining # state.time_remaining) =>
           TicksToServe(state') < TicksToServe(state)]_vars

Served == state.elevators[1].going_to = <<>> /\ state.elevators[1].doors_open

\* C20 as claimed: once the ticks have begun, a queue of destinations leads
\* to an empty queue with the elevator's doors open, so that every
\* destination is served and no open-door phase lasts forever; and the
\* destinations are served in the order queued, one floor per tick.
C20_DestinationsServed == (Ticking ~> Served) /\ ServedInOrder

\* C20 amended: once the ticks have begun, a queue of destinations leads to
\* an empty queue with the elevator's doors open unless the game fails
\* first; every tick brings the elevator closer to it by the count of
\* TicksToServe, so that a queue whose TicksToServe is less than
\* time_remaining is served before the game fails; and the destinations
\* are served in the order queued, one floor per tick.
C20_ServedUnlessFailed ==
    /\ Ticking ~> (Served \/ state.failed)
    /\ (Ticking /\ TicksToServe(state) < state.time_remaining) ~> (Served /\ ~state.failed)
    /\ CloserEachTick
    /\ ServedInOrder

\* Two destinations have been served and a rider dropped off on the way:
\* the elevator stands with open doors on floor 1, its queue empty.
C20_Witness ==
    /\ ~state.failed
    /\ state.time_remaining < INITIAL_TIME - 6
    /\ state.elevators[1].going_to = <<>>
    /\ state.elevators[1].floor = 1
    /\ state.elevators[1].doors_open
    /\ state.score > 0

(***************************************************************************)
(* C21: nobody waits on the floor it wants to reach.                       *)
(***************************************************************************)
\* Every passenger in the line of a floor of st is for another floor.
WaitingElsewhere(st) ==
    \A f \in Floors(st) :
        \A j \in 1..Len(st.floors[f].passengers) :
            st.floors[f].passengers[j].target_floor # f - 1

\* The elevators of st that hold more riders in t: those that a passenger
\* boarded (elevator.py:153-155), as no other branch adds a rider.
BoardedInto(st, t) ==
    {e \in Elevators(st) :
        Len(t.elevators[e].passengers) > Len(st.elevators[e].passengers)}

\* C21: every passenger waiting in the line of floor f is for a floor other
\* than f, those put back by the re-queue of a bypassed front rider
\* included; and the passenger that boards in a tick is at the front of its
\* elevator and is not for the floor where the elevator stands.
C21_WaitingElsewhere ==
    /\ WaitingElsewhere(state)
    /\ \A t \in {AfterElevators(state)} :
          /\ WaitingElsewhere(t)
          /\ \A e \in BoardedInto(state, t) :
                /\ t.elevators[e].floor = state.elevators[e].floor
                /\ Head(t.elevators[e].passengers).target_floor # t.elevators[e].floor

\* Without arrivals everybody started on floor 0: the passenger at the
\* front of the line of a higher floor was put there by the re-queue, in
\* the way of a rider for that floor who is still on board, and the game
\* has not failed.
C21_Witness ==
    /\ state.config.arrival_rate = 0
    /\ ~state.failed
    /\ \E f \in Floors(state) :
          /\ f > 1
          /\ state.floors[f].passengers # <<>>
          /\ Head(state.floors[f].passengers).target_floor > f - 1
          /\ \E e \in Elevators(state) :
                /\ state.elevators[e].floor = f - 1
                /\ state.elevators[e].doors_open
                /\ getting_out(state.elevators[e]) >= 0

====
